---------------------------- MODULE Spec2Model ----------------------------
(***************************************************************************)
(* m365-entra-ip-block-lists: the three scripts fetch.py, validate.py and  *)
(* chunk.py as state machines over one file system.                        *)
(*                                                                         *)
(* A string is a sequence of one-character strings, so that strip(),       *)
(* startswith(), split(), the substring test and sorted() are computed     *)
(* character by character.  A text file is the sequence of its lines.      *)
(* A path is <<dir, name>>, dir a sequence of components.                  *)
(***************************************************************************)
EXTENDS Integers, Sequences, FiniteSets, TLC

VARIABLES
    fs,             \* path -> content of every existing file
    dirs,           \* the existing directories
    args,           \* the parsed command line of the running script
    pc,             \* position of main()
    todo,           \* what the main loop has still to iterate over
    log,            \* one record per unit the main loop has attempted
    exit_code,      \* the process exit status once pc is "exited" or "crashed"
    total_errors,   \* validate.py main
    success_count,  \* fetch.py main
    total_cidrs,    \* fetch.py main
    runs,           \* the command lines of the completed runs of chunk.py
    calls,          \* chunk_file: the dry-run and the real call of a scenario
    content,        \* a provider response handed to a parser
    parsed          \* what the parser made of it

vars == <<fs, dirs, args, pc, todo, log, exit_code, total_errors,
          success_count, total_cidrs, runs, calls, content, parsed>>

\* A file that exists but cannot be opened or decoded, and a readable one.
Unreadable == [readable |-> FALSE]
File(lines) == [readable |-> TRUE, lines |-> lines]

\* An optional value: Python's None, or a value.
None == [given |-> FALSE]
Some(v) == [given |-> TRUE, value |-> v]

----------------------------------------------------------------------------
(* Bounds of the model.                                                    *)

MaxLines == 4
MaxSize == 3
MaxRuns == 2

----------------------------------------------------------------------------
(* Python's str and list built-ins.                                        *)

\* The characters the model uses, in code point order.
Ascii ==
    <<"\t", "\n", " ", "#", ",", "-", ".", "/", "0", "1", "2", "3", "4", "5", "6",
      "7", "8", "9", ":", "A", "E", "_", "a", "b", "c", "d", "e", "f", "g",
      "h", "i", "j", "k", "l", "m", "n", "o", "p", "q", "r", "s", "t", "u",
      "v", "w", "x", "y", "z">>

ord(c) == CHOOSE i \in 1..Len(Ascii) : Ascii[i] = c

RECURSIVE str_lt(_, _)
str_lt(a, b) ==
    IF b = <<>> THEN FALSE
    ELSE IF a = <<>> THEN TRUE
    ELSE IF Head(a) = Head(b) THEN str_lt(Tail(a), Tail(b))
    ELSE ord(Head(a)) < ord(Head(b))

isspace(c) == c \in {" ", "\t", "\n"}

RECURSIVE lstrip(_)
lstrip(s) == IF s # <<>> /\ isspace(Head(s)) THEN lstrip(Tail(s)) ELSE s

RECURSIVE rstrip(_)
rstrip(s) ==
    IF s # <<>> /\ isspace(s[Len(s)]) THEN rstrip(SubSeq(s, 1, Len(s) - 1))
    ELSE s

strip(s) == rstrip(lstrip(s))

startswith(s, p) == Len(s) >= Len(p) /\ SubSeq(s, 1, Len(p)) = p

DigitChars == <<"0", "1", "2", "3", "4", "5", "6", "7", "8", "9">>

RECURSIVE decimal(_)
decimal(n) ==
    IF n < 10 THEN <<DigitChars[n + 1]>>
    ELSE decimal(n \div 10) \o <<DigitChars[(n % 10) + 1]>>

RECURSIVE zfill(_, _)
zfill(s, width) == IF Len(s) >= width THEN s ELSE zfill(<<"0">> \o s, width)

Min(a, b) == IF a < b THEN a ELSE b

\* sorted(set(xs)) of strings
RECURSIVE sorted_set(_)
sorted_set(S) ==
    IF S = {} THEN <<>>
    ELSE LET m == CHOOSE x \in S : \A y \in S : y = x \/ str_lt(x, y)
         IN  <<m>> \o sorted_set(S \ {m})

Range(s) == {s[i] : i \in 1..Len(s)}

Raised == [raised |-> TRUE]
Returned(v) == [raised |-> FALSE, value |-> v]

----------------------------------------------------------------------------
(* The file system.                                                        *)

TXT == <<".", "t", "x", "t">>
AWS == <<"a", "w", "s">>
TOR == <<"t", "o", "r">>
LISTS == <<"l", "i", "s", "t", "s">>
PROVIDERS_DIR == <<LISTS, <<"p", "r", "o", "v", "i", "d", "e", "r", "s">>>>
CHUNKS_DIR == <<LISTS, <<"c", "h", "u", "n", "k", "s">>>>
OUT_DIR == <<<<"o", "u", "t">>>>

exists(path) == path \in DOMAIN fs

\* Path.parent.mkdir(parents=True, exist_ok=True)
mkdir_parents(ds, dir) == ds \cup {SubSeq(dir, 1, k) : k \in 1..Len(dir)}

\* Path.stem: the name without its last suffix
RECURSIVE last_dot(_, _)
last_dot(name, i) ==
    IF i = 0 THEN 0 ELSE IF name[i] = "." THEN i ELSE last_dot(name, i - 1)

stem(path) ==
    LET name == path[2]
        i == last_dot(name, Len(name))
    IN  IF i <= 1 THEN name ELSE SubSeq(name, 1, i - 1)

\* Path ordering: the parts compared one by one, each as a string
RECURSIVE parts_lt(_, _)
parts_lt(a, b) ==
    IF b = <<>> THEN FALSE
    ELSE IF a = <<>> THEN TRUE
    ELSE IF Head(a) = Head(b) THEN parts_lt(Tail(a), Tail(b))
    ELSE str_lt(Head(a), Head(b))

path_lt(p, q) == parts_lt(Append(p[1], p[2]), Append(q[1], q[2]))

\* sorted(paths) of a list: insertion into the sorted rest, stable
RECURSIVE insert_path(_, _)
insert_path(p, sorted) ==
    IF sorted = <<>> THEN <<p>>
    ELSE IF path_lt(Head(sorted), p) \/ Head(sorted) = p
         THEN <<Head(sorted)>> \o insert_path(p, Tail(sorted))
         ELSE <<p>> \o sorted

RECURSIVE sorted_paths(_)
sorted_paths(ps) ==
    IF ps = <<>> THEN <<>>
    ELSE insert_path(ps[Len(ps)], sorted_paths(SubSeq(ps, 1, Len(ps) - 1)))

endswith(s, p) ==
    Len(s) >= Len(p) /\ SubSeq(s, Len(s) - Len(p) + 1, Len(s)) = p

\* dir.glob('*.txt'): the files of dir whose name ends in .txt, in the
\* order the directory lists them (here: sorted; every caller but the
\* validator's directory expansion sorts the result itself)
RECURSIVE set_to_paths(_)
set_to_paths(S) ==
    IF S = {} THEN <<>>
    ELSE LET m == CHOOSE x \in S : \A y \in S : y = x \/ path_lt(x, y)
         IN  <<m>> \o set_to_paths(S \ {m})

glob_txt(dir) ==
    set_to_paths({p \in DOMAIN fs : p[1] = dir /\ endswith(p[2], TXT)})

\* open(path, 'w') and one write per line
write_lines(files, path, lines) ==
    [p \in DOMAIN files \cup {path} |->
        IF p = path THEN File(lines) ELSE files[p]]

----------------------------------------------------------------------------
(* chunk.py                                                                *)

\* read_cidrs: raises when the file cannot be opened or decoded
read_cidrs(filepath) ==
    IF ~exists(filepath) \/ ~fs[filepath].readable THEN Raised
    ELSE LET lines == fs[filepath].lines
             stripped == [i \in 1..Len(lines) |-> strip(lines[i])]
         IN  Returned(SelectSeq(stripped,
                 LAMBDA s : s # <<>> /\ ~startswith(s, <<"#">>)))

\* write_chunk, on the pair st = [fs, dirs]
write_chunk(st, cidrs, output_path) ==
    [st EXCEPT !.dirs = mkdir_parents(st.dirs, output_path[1]),
               !.fs = write_lines(st.fs, output_path, cidrs)]

\* f"{prefix}-part-{chunk_num:03d}.txt"
output_filename(prefix, chunk_num) ==
    prefix \o <<"-", "p", "a", "r", "t", "-">> \o zfill(decimal(chunk_num), 3)
           \o TXT

\* Mutant of num_chunks: the division rounds down.
num_chunks_floor(cidrs, chunk_size) == Len(cidrs) \div chunk_size

\* (len(cidrs) + chunk_size - 1) // chunk_size
num_chunks(cidrs, chunk_size) == (Len(cidrs) + chunk_size - 1) \div chunk_size

\* Mutant of chunk_body: the path is appended only when the chunk is written.
chunk_body_dry(st, i, cidrs, output_dir, chunk_size, prefix, dry_run) ==
    LET output_path == <<output_dir, output_filename(prefix, i + 1)>>
        chunk_cidrs == SubSeq(cidrs, i * chunk_size + 1,
                              Min((i + 1) * chunk_size, Len(cidrs)))
    IN  IF dry_run THEN st
        ELSE [write_chunk(st, chunk_cidrs, output_path)
                 EXCEPT !.written = Append(@, output_path),
                        !.output_files = Append(@, output_path)]

\* One iteration of chunk_file's for loop, on st = [fs, dirs, output_files,
\* written]: the slice is written unless dry_run, its path is always appended.
chunk_body(st, i, cidrs, output_dir, chunk_size, prefix, dry_run) ==
    LET start == i * chunk_size
        end == Min((i + 1) * chunk_size, Len(cidrs))
        chunk_cidrs == SubSeq(cidrs, start + 1, end)
        chunk_num == i + 1
        output_path == <<output_dir, output_filename(prefix, chunk_num)>>
        wr == IF dry_run THEN st
              ELSE [write_chunk(st, chunk_cidrs, output_path)
                       EXCEPT !.written = Append(@, output_path)]
    IN  [wr EXCEPT !.output_files = Append(@, output_path)]

\* for i in range(num_chunks), from iteration i on
RECURSIVE chunk_loop(_, _, _, _, _, _, _)
chunk_loop(st, i, cidrs, output_dir, chunk_size, prefix, dry_run) ==
    IF i >= num_chunks(cidrs, chunk_size) THEN st
    ELSE chunk_loop(
             chunk_body(st, i, cidrs, output_dir, chunk_size, prefix, dry_run),
             i + 1, cidrs, output_dir, chunk_size, prefix, dry_run)

\* chunk_file: Raised, or Returned([fs, dirs, output_files, written])
chunk_file(input_path, output_dir, chunk_size, prefix, dry_run) ==
    LET rd == read_cidrs(input_path)
        st0 == [fs |-> fs, dirs |-> dirs, output_files |-> <<>>,
                written |-> <<>>]
    IN  IF rd.raised THEN Raised
        ELSE IF rd.value = <<>> THEN Returned(st0)
        ELSE Returned(chunk_loop(st0, 0, rd.value, output_dir, chunk_size,
                 IF prefix.given THEN prefix.value ELSE stem(input_path),
                 dry_run))

----------------------------------------------------------------------------
(* Values the variables hold while the script they belong to is not run.   *)

NoArgs == [script |-> "none"]
NoCall == [done |-> FALSE]
NoCalls == [dry |-> NoCall, wet |-> NoCall]
NoContent == [parser |-> "none"]
NoParse == [done |-> FALSE]

MainIdle ==
    /\ todo = <<>>
    /\ log = <<>>
    /\ exit_code = 0
    /\ total_errors = 0
    /\ success_count = 0
    /\ total_cidrs = 0
    /\ runs = <<>>

ParserIdle == content = NoContent /\ parsed = NoParse

BoundedSeq(S, n) == UNION {[1..k -> S] : k \in 0..n}

----------------------------------------------------------------------------
(* chunk_file called on one source file, once as a dry run and once for    *)
(* real, on the same arguments.                                            *)

RawLines == {<<>>, <<" ", "#", "c">>, <<"a">>, <<" ", "b", "\t">>}

InputPath == <<PROVIDERS_DIR, AWS \o TXT>>

StalePath == <<OUT_DIR, output_filename(AWS, 2)>>

InitChunkFile ==
    /\ \E src \in {File(l) : l \in BoundedSeq(RawLines, MaxLines)}
                     \cup {Unreadable},
          stale \in BOOLEAN :
            /\ fs = IF stale
                    THEN (InputPath :> src) @@ (StalePath :> File(<<<<"z">>>>))
                    ELSE (InputPath :> src)
            /\ dirs = mkdir_parents(IF stale THEN {OUT_DIR} ELSE {},
                                    PROVIDERS_DIR)
    /\ \E size \in 1..MaxSize, prefix \in {None, Some(<<"p">>)} :
            args = [script |-> "chunk_file", input |-> InputPath,
                    output_dir |-> OUT_DIR, size |-> size, prefix |-> prefix]
    /\ pc = "call"
    /\ calls = NoCalls
    /\ MainIdle
    /\ ParserIdle

\* What a call leaves behind, for the properties of chunk_file.
CallRecord(r, dry_run) ==
    [done |-> TRUE, dry_run |-> dry_run, raised |-> r.raised,
     output_files |-> IF r.raised THEN <<>> ELSE r.value.output_files,
     written |-> IF r.raised THEN <<>> ELSE r.value.written,
     fs_before |-> fs, dirs_before |-> dirs,
     fs_after |-> IF r.raised THEN fs ELSE r.value.fs,
     dirs_after |-> IF r.raised THEN dirs ELSE r.value.dirs]

ChunkFileCall(dry_run) ==
    /\ pc = "call"
    /\ ~calls[IF dry_run THEN "dry" ELSE "wet"].done
    /\ LET r == chunk_file(args.input, args.output_dir, args.size,
                           args.prefix, dry_run)
       IN  /\ calls' = [calls EXCEPT ![IF dry_run THEN "dry" ELSE "wet"] =
                            CallRecord(r, dry_run)]
           /\ fs' = IF r.raised THEN fs ELSE r.value.fs
           /\ dirs' = IF r.raised THEN dirs ELSE r.value.dirs
    /\ UNCHANGED <<args, pc, todo, log, exit_code, total_errors,
                   success_count, total_cidrs, runs, content, parsed>>

NextChunkFile == \E dry_run \in BOOLEAN : ChunkFileCall(dry_run)

SpecChunkFile == InitChunkFile /\ [][NextChunkFile]_vars

----------------------------------------------------------------------------
(* Properties of chunk_file.                                               *)

\* ceil(n / s), stated without the code's arithmetic
CeilDiv(n, s) == CHOOSE k \in 0..n : k * s >= n /\ (k - 1) * s < n

\* {prefix}-part-00i.txt, for i < 10
PartName(prefix, i) ==
    prefix \o <<"-", "p", "a", "r", "t", "-", "0", "0", DigitChars[i + 1]>>
           \o <<".", "t", "x", "t">>

RECURSIVE ConcatFiles(_, _)
ConcatFiles(files, paths) ==
    IF paths = <<>> THEN <<>>
    ELSE files[Head(paths)].lines \o ConcatFiles(files, Tail(paths))

ScenarioPrefix == IF args.prefix.given THEN args.prefix.value ELSE AWS

\* C1: a real (non-dry-run) chunk_file call on a source of n >= 1 entries with
\* chunk size s writes exactly ceil(n/s) files, named {prefix}-part-001 ..
\* {prefix}-part-k in this order; every file holds between 1 and s entries,
\* every file but the last exactly s, and the files concatenated in index
\* order are the source's entries (blank and '#' lines removed, order kept).
C1_ChunkPartition ==
    (calls.wet.done /\ ~calls.wet.raised
        /\ read_cidrs(args.input).value # <<>>) =>
    LET w == calls.wet
        cidrs == read_cidrs(args.input).value
        n == Len(cidrs)
        s == args.size
        k == CeilDiv(n, s)
        size(i) == Len(w.fs_after[w.output_files[i]].lines)
    IN  /\ Len(w.written) = k
        /\ w.output_files = w.written
        /\ \A i \in 1..k :
              /\ w.written[i] =
                    <<args.output_dir, PartName(ScenarioPrefix, i)>>
              /\ w.written[i] \in DOMAIN w.fs_after
              /\ size(i) >= 1 /\ size(i) <= s
              /\ (i < k => size(i) = s)
        /\ ConcatFiles(w.fs_after, w.written) = cidrs
        /\ \A i \in 1..n : cidrs[i] # <<>> /\ Head(cidrs[i]) # "#"

\* C1's case: several chunks, the last one shorter than the chunk size, from
\* a source that also holds a line that is no entry.
C1_Witness ==
    /\ calls.wet.done /\ ~calls.wet.raised
    /\ Len(calls.wet.written) = 2
    /\ args.size = 2
    /\ Len(calls.wet.fs_after[calls.wet.written[2]].lines) = 1
    /\ Len(fs[args.input].lines) = 4
    /\ StalePath \in DOMAIN calls.wet.fs_before

\* C7: the dry-run call of chunk_file returns the same list of output paths
\* as the real call on the same arguments, and the dry-run call leaves every
\* file and directory as it was.
C7_DryRunSamePaths ==
    calls.dry.done =>
        /\ calls.dry.fs_after = calls.dry.fs_before
        /\ calls.dry.dirs_after = calls.dry.dirs_before
        /\ calls.dry.written = <<>>
        /\ calls.wet.done =>
              /\ calls.wet.raised = calls.dry.raised
              /\ calls.wet.output_files = calls.dry.output_files

\* C7's case: both calls made on a source that needs several chunks, the dry
\* run first, while the output directory does not exist yet.
C7_Witness ==
    /\ calls.dry.done /\ calls.wet.done
    /\ Len(calls.dry.output_files) >= 2
    /\ OUT_DIR \notin calls.dry.dirs_after
    /\ OUT_DIR \in calls.wet.dirs_after

----------------------------------------------------------------------------
(* chunk.py main, run again and again while the provider files change.     *)

Entries == <<<<"a">>, <<"b">>, <<"c">>>>

ProviderContents ==
    {File(SubSeq(Entries, 1, k)) : k \in 0..Len(Entries)} \cup {Unreadable}

AwsPath == <<PROVIDERS_DIR, AWS \o TXT>>
TorPath == <<PROVIDERS_DIR, TOR \o TXT>>
MissingPath == <<OUT_DIR, <<"n", "o", "p", "e">> \o TXT>>

ChunkArgs ==
    {[script |-> "chunk", all_providers |-> all, input |-> input,
      output_dir |-> CHUNKS_DIR \o <<AWS>>, size |-> size, prefix |-> None,
      dry_run |-> dry] :
        all \in BOOLEAN, input \in {AwsPath, MissingPath},
        size \in 1..MaxSize, dry \in BOOLEAN}

InitChunk ==
    /\ \/ /\ \E a, t \in ProviderContents : fs = (AwsPath :> a) @@ (TorPath :> t)
          /\ dirs = mkdir_parents({}, PROVIDERS_DIR)
       \/ /\ fs = <<>>
          /\ dirs = {}
    /\ args = NoArgs
    /\ pc = "start"
    /\ calls = NoCalls
    /\ MainIdle
    /\ ParserIdle

\* main, single file mode: lines 146-160
ChunkMainSingle ==
    /\ pc = "start"
    /\ \E a \in ChunkArgs :
        /\ ~a.all_providers
        /\ args' = a
        /\ IF ~exists(a.input)
           THEN /\ pc' = "exited" /\ exit_code' = 1
                /\ UNCHANGED <<fs, dirs>>
           ELSE LET r == chunk_file(a.input, a.output_dir, a.size, a.prefix,
                                    a.dry_run)
                IN  IF r.raised
                    THEN /\ pc' = "crashed" /\ exit_code' = 1
                         /\ UNCHANGED <<fs, dirs>>
                    ELSE /\ fs' = r.value.fs
                         /\ dirs' = r.value.dirs
                         /\ pc' = "exited"
                         /\ exit_code' =
                               IF r.value.output_files = <<>> THEN 1 ELSE 0
    /\ UNCHANGED <<todo, log, total_errors, success_count, total_cidrs, runs,
                   calls, content, parsed>>

\* main, --all-providers: lines 122-131, up to the loop
ChunkMainAll ==
    /\ pc = "start"
    /\ \E a \in ChunkArgs :
        /\ a.all_providers
        /\ args' = a
        /\ IF PROVIDERS_DIR \notin dirs
           THEN /\ pc' = "exited" /\ exit_code' = 1 /\ UNCHANGED todo
           ELSE /\ pc' = "loop" /\ todo' = sorted_paths(glob_txt(PROVIDERS_DIR))
                /\ UNCHANGED exit_code
    /\ UNCHANGED <<fs, dirs, log, total_errors, success_count, total_cidrs,
                   runs, calls, content, parsed>>

\* One iteration of the --all-providers loop: lines 131-144.  An exception
\* of read_cidrs or chunk_file is caught nowhere and ends the process.
ChunkLoopBody ==
    /\ pc = "loop"
    /\ todo # <<>>
    /\ LET provider_file == Head(todo)
           rd == read_cidrs(provider_file)
           output_dir == Append(CHUNKS_DIR, stem(provider_file))
           r == chunk_file(provider_file, output_dir, args.size,
                           Some(stem(provider_file)), args.dry_run)
       IN  IF rd.raised \/ (Len(rd.value) > args.size /\ r.raised)
           THEN /\ pc' = "crashed" /\ exit_code' = 1
                /\ log' = Append(log, [unit |-> provider_file,
                                       raised |-> TRUE, chunked |-> FALSE])
                /\ UNCHANGED <<fs, dirs, todo>>
           ELSE /\ IF Len(rd.value) > args.size
                   THEN fs' = r.value.fs /\ dirs' = r.value.dirs
                   ELSE UNCHANGED <<fs, dirs>>
                /\ todo' = Tail(todo)
                /\ log' = Append(log, [unit |-> provider_file,
                                       raised |-> FALSE,
                                       chunked |-> Len(rd.value) > args.size])
                /\ UNCHANGED <<pc, exit_code>>
    /\ UNCHANGED <<args, total_errors, success_count, total_cidrs, runs,
                   calls, content, parsed>>

\* The loop is exhausted and main returns.
ChunkLoopEnd ==
    /\ pc = "loop"
    /\ todo = <<>>
    /\ pc' = "exited"
    /\ exit_code' = 0
    /\ UNCHANGED <<fs, dirs, args, todo, log, total_errors, success_count,
                   total_cidrs, runs, calls, content, parsed>>

\* Between two runs a provider file is rewritten (the Fetcher, an editor).
ChunkNextRun ==
    /\ pc \in {"exited", "crashed"}
    /\ Len(runs) + 1 < MaxRuns
    /\ \E p \in DOMAIN fs \cap {AwsPath, TorPath}, c \in ProviderContents :
          fs' = [fs EXCEPT ![p] = c]
    /\ runs' = Append(runs, args)
    /\ pc' = "start"
    /\ log' = <<>>
    /\ todo' = <<>>
    /\ UNCHANGED <<dirs, args, exit_code, total_errors, success_count,
                   total_cidrs, calls, content, parsed>>

NextChunk ==
    \/ ChunkMainSingle
    \/ ChunkMainAll
    \/ ChunkLoopBody
    \/ ChunkLoopEnd
    \/ ChunkNextRun

SpecChunk == InitChunk /\ [][NextChunk]_vars

\* The part files of a prefix present in a directory, in index order.
RECURSIVE PartFilesFrom(_, _, _)
PartFilesFrom(dir, prefix, k) ==
    IF k > 9 THEN <<>>
    ELSE (IF <<dir, PartName(prefix, k)>> \in DOMAIN fs
          THEN <<<<dir, PartName(prefix, k)>>>> ELSE <<>>)
         \o PartFilesFrom(dir, prefix, k + 1)

PartFiles(dir, prefix) == PartFilesFrom(dir, prefix, 1)

\* C10: after a sequence of runs of chunk.py with one and the same command
\* line (not a dry run), between which the sources changed, the part files
\* present under a target directory and prefix, concatenated in index order,
\* are the entries of their source as of the last run: no part file of an
\* earlier, longer version of the source is left.
C10_ChunksMatchSource ==
    (pc = "exited" /\ exit_code = 0 /\ ~args.dry_run
        /\ \A i \in 1..Len(runs) : runs[i] = args) =>
        IF args.all_providers
        THEN \A i \in 1..Len(log) :
                LET dir == Append(CHUNKS_DIR, stem(log[i].unit))
                    parts == PartFiles(dir, stem(log[i].unit))
                IN  parts # <<>> =>
                        ConcatFiles(fs, parts) = read_cidrs(log[i].unit).value
        ELSE ConcatFiles(fs, PartFiles(args.output_dir, stem(args.input)))
                = read_cidrs(args.input).value

----------------------------------------------------------------------------
(* ipaddress.ip_network(text, strict=False), as far as the scripts use it. *)

isdigit(s) == s # <<>> /\ \A i \in 1..Len(s) : s[i] \in Range(DigitChars)

RECURSIVE int(_)
int(s) ==
    IF s = <<>> THEN 0
    ELSE 10 * int(SubSeq(s, 1, Len(s) - 1)) + (ord(s[Len(s)]) - ord("0"))

\* str.split(sep) on a separator of one character
RECURSIVE split(_, _)
split(s, sep) ==
    IF \A i \in 1..Len(s) : s[i] # sep THEN <<s>>
    ELSE LET i == CHOOSE k \in 1..Len(s) :
                     s[k] = sep /\ \A m \in 1..(k - 1) : s[m] # sep
         IN  <<SubSeq(s, 1, i - 1)>> \o split(SubSeq(s, i + 1, Len(s)), sep)

\* IPv4Address._parse_octet
octet_ok(o) == isdigit(o) /\ Len(o) <= 3 /\ (Len(o) > 1 => o[1] # "0")
                   /\ int(o) <= 255

\* The IPv6 networks among the model's texts (IPv6Network accepts them).
IPv6Texts ==
    {<<":", ":", "/", "0">>,
     <<"2", "0", "0", "1", ":", "d", "b", "8", ":", ":", "/", "3", "2">>}

\* 2^k for k in 0..8
Pow2(k) == CASE k = 0 -> 1 [] k = 1 -> 2 [] k = 2 -> 4 [] k = 3 -> 8
             [] k = 4 -> 16 [] k = 5 -> 32 [] k = 6 -> 64 [] k = 7 -> 128
             [] OTHER -> 256

\* address & netmask, octet by octet
mask_octet(o, i, prefixlen) ==
    LET keep == IF prefixlen - 8 * (i - 1) < 0 THEN 0
                ELSE Min(8, prefixlen - 8 * (i - 1))
    IN  o - (o % Pow2(8 - keep))

\* [ok |-> FALSE] for the ValueError, else the network with its host bits
\* cleared.  A prefix is a decimal number (no dotted netmask in the model).
ip_network(text) ==
    LET halves == split(text, "/")
        addr == split(halves[1], ".")
        prefix_ok == Len(halves) = 1
                        \/ (isdigit(halves[2]) /\ int(halves[2]) <= 32)
        prefixlen == IF Len(halves) = 1 THEN 32 ELSE int(halves[2])
    IN  IF text \in IPv6Texts THEN [ok |-> TRUE, version |-> 6]
        ELSE IF Len(halves) <= 2 /\ Len(addr) = 4
                  /\ (\A i \in 1..4 : octet_ok(addr[i])) /\ prefix_ok
        THEN [ok |-> TRUE, version |-> 4, prefixlen |-> prefixlen,
              octets |-> [i \in 1..4 |->
                             mask_octet(int(addr[i]), i, prefixlen)]]
        ELSE [ok |-> FALSE]

\* str(network) of an IPv4 network
network_str(net) ==
    decimal(net.octets[1]) \o <<".">> \o decimal(net.octets[2]) \o <<".">>
        \o decimal(net.octets[3]) \o <<".">> \o decimal(net.octets[4])
        \o <<"/">> \o decimal(net.prefixlen)

----------------------------------------------------------------------------
(* validate.py                                                             *)

\* validate_cidr: <<is_valid, error>>; the error is None, the IPv6 message
\* or the text of the ValueError
validate_cidr(text) ==
    LET line == strip(text)
        network == ip_network(line)
    IN  IF line = <<>> \/ startswith(line, <<"#">>) THEN <<TRUE, None>>
        ELSE IF ~network.ok
             THEN <<FALSE, Some([message |-> "not an IPv4 or IPv6 network",
                                 text |-> line])>>
        ELSE IF network.version # 4
             THEN <<FALSE, Some([message |-> "IPv6 not supported",
                                 text |-> line])>>
        ELSE <<TRUE, None>>

\* Mutant of normalized: the line is compared as written.
normalized_literal(stripped) == stripped

\* str(ipaddress.ip_network(stripped, strict=False)), line 70
normalized(stripped) == network_str(ip_network(stripped))

\* The body of validate_file's loop, on st = [results, seen_cidrs].
validate_line(st, line_num, line) ==
    LET counted == [st EXCEPT !.results.total_lines = @ + 1]
        stripped == strip(line)
        v == validate_cidr(stripped)
    IN  IF stripped = <<>> \/ startswith(stripped, <<"#">>) THEN counted
        ELSE IF ~v[1]
        THEN [counted EXCEPT
                 !.results.invalid_cidrs = @ + 1,
                 !.results.errors = Append(@, [line |-> line_num,
                     content |-> stripped, error |-> v[2].value])]
        ELSE IF normalized(stripped) \in st.seen_cidrs
        THEN [counted EXCEPT
                 !.results.duplicates = @ + 1,
                 !.results.duplicate_entries = @ \cup {normalized(stripped)}]
        ELSE [counted EXCEPT
                 !.seen_cidrs = @ \cup {normalized(stripped)},
                 !.results.valid_cidrs = @ + 1]

RECURSIVE validate_lines(_, _, _)
validate_lines(st, line_num, lines) ==
    IF line_num > Len(lines) THEN st
    ELSE validate_lines(validate_line(st, line_num, lines[line_num]),
                        line_num + 1, lines)

\* validate_file: Raised when the file cannot be opened or decoded, else
\* Returned(results), duplicate_entries sorted
validate_file(filepath) ==
    IF ~exists(filepath) \/ ~fs[filepath].readable THEN Raised
    ELSE LET st0 == [results |-> [file |-> filepath, total_lines |-> 0,
                                  valid_cidrs |-> 0, invalid_cidrs |-> 0,
                                  duplicates |-> 0, errors |-> <<>>,
                                  duplicate_entries |-> {}],
                     seen_cidrs |-> {}]
             st == validate_lines(st0, 1, fs[filepath].lines)
         IN  Returned([st.results EXCEPT
                          !.duplicate_entries = sorted_set(@)])

----------------------------------------------------------------------------
(* validate_file called on one file.                                       *)

MaxFileLines == 4

N10_0_0_0_24 == <<"1", "0", ".", "0", ".", "0", ".", "0", "/", "2", "4">>
N10_0_0_1_24 == <<"1", "0", ".", "0", ".", "0", ".", "1", "/", "2", "4">>
N10_0_1_0_24 == <<"1", "0", ".", "0", ".", "1", ".", "0", "/", "2", "4">>
N9_0_0_9_8 == <<" ", "9", ".", "0", ".", "0", ".", "9", "/", "8", "\t">>
N9_0_0_0_8 == <<"9", ".", "0", ".", "0", ".", "0", "/", "8">>
Bad33 == <<"1", "0", ".", "0", ".", "0", ".", "0", "/", "3", "3">>
V6 == <<":", ":", "/", "0">>
Comment == <<" ", "#", "c">>

ListLines ==
    {<<>>, Comment, N10_0_0_0_24, N10_0_0_1_24, N10_0_1_0_24, N9_0_0_9_8,
     Bad33, V6}

ListPath == <<PROVIDERS_DIR, AWS \o TXT>>

InitValidateFile ==
    /\ \E lines \in BoundedSeq(ListLines, MaxFileLines) :
          fs = (ListPath :> File(lines))
    /\ dirs = mkdir_parents({}, PROVIDERS_DIR)
    /\ args = NoArgs
    /\ pc = "call"
    /\ calls = NoCalls
    /\ MainIdle
    /\ ParserIdle

ValidateFileCall ==
    /\ pc = "call"
    /\ log' = <<validate_file(ListPath)>>
    /\ pc' = "returned"
    /\ UNCHANGED <<fs, dirs, args, todo, exit_code, total_errors,
                   success_count, total_cidrs, runs, calls, content, parsed>>

NextValidateFile == ValidateFileCall

SpecValidateFile == InitValidateFile /\ [][NextValidateFile]_vars

\* C4: validate_file counts, per file and in file order, the first line that
\* normalizes (host bits cleared) to a network as valid and every later line
\* normalizing to it as a duplicate.  On return valid_cidrs is the number of
\* distinct normalized networks, duplicate_entries is the sorted
\* duplicate-free list of the networks seen more than once, and valid_cidrs +
\* duplicates + invalid_cidrs is the number of non-blank non-comment lines;
\* 10.0.0.0/24, 10.0.0.1/24, 10.0.1.0/24 gives 2 valid, 1 duplicate and the
\* duplicate list [10.0.0.0/24].
C4_DuplicateCounting ==
    (pc = "returned" /\ ~log[1].raised) =>
    LET r == log[1].value
        lines == fs[ListPath].lines
        text(i) == strip(lines[i])
        entries == {i \in 1..Len(lines) :
                       text(i) # <<>> /\ Head(text(i)) # "#"}
        valid == {i \in entries : ip_network(text(i)).ok
                                     /\ ip_network(text(i)).version = 4}
        net(i) == network_str(ip_network(text(i)))
        nets == {net(i) : i \in valid}
        repeated == {n \in nets : Cardinality({i \in valid : net(i) = n}) > 1}
        de == r.duplicate_entries
    IN  /\ r.valid_cidrs = Cardinality(nets)
        /\ r.duplicates = Cardinality(valid) - Cardinality(nets)
        /\ r.invalid_cidrs = Cardinality(entries \ valid)
        /\ r.valid_cidrs + r.duplicates + r.invalid_cidrs
              = Cardinality(entries)
        /\ Range(de) = repeated
        /\ \A i, j \in 1..Len(de) : i < j => str_lt(de[i], de[j])
        /\ lines = <<N10_0_0_0_24, N10_0_0_1_24, N10_0_1_0_24>> =>
              /\ r.valid_cidrs = 2
              /\ r.duplicates = 1
              /\ de = <<N10_0_0_0_24>>
        /\ lines = <<N9_0_0_9_8, N10_0_0_1_24, N10_0_0_0_24, N9_0_0_9_8>> =>
              de = <<N10_0_0_0_24, N9_0_0_0_8>>

\* C4's case: two networks each seen twice, one of them only after the host
\* bits are cleared, listed in string order ("10..." before "9...").
C4_Witness ==
    /\ pc = "returned"
    /\ fs[ListPath].lines
          = <<N9_0_0_9_8, N10_0_0_1_24, N10_0_0_0_24, N9_0_0_9_8>>
    /\ log[1].value.duplicates = 2
    /\ log[1].value.valid_cidrs = 2
    /\ log[1].value.duplicate_entries = <<N10_0_0_0_24, N9_0_0_0_8>>

----------------------------------------------------------------------------
(* validate.py main.                                                       *)

MaxPaths == 2

is_file(path) == exists(path)
is_dir(path) == Append(path[1], path[2]) \in dirs

\* lines 131-139: the files to validate, in the order they are collected
RECURSIVE collect_files(_)
collect_files(paths) ==
    IF paths = <<>> THEN <<>>
    ELSE LET path == Head(paths)
         IN  (IF is_file(path) THEN <<path>>
              ELSE IF is_dir(path) THEN glob_txt(Append(path[1], path[2]))
              ELSE <<>>)
             \o collect_files(Tail(paths))

ProvidersDirPath == <<<<LISTS>>, PROVIDERS_DIR[2]>>

ListContents ==
    {File(<<>>), File(<<Comment, N10_0_0_0_24>>),
     File(<<N10_0_0_0_24, N10_0_0_1_24>>), File(<<Bad33>>),
     File(<<N10_0_0_0_24, V6, Bad33>>), Unreadable}

InitValidate ==
    /\ \E present \in SUBSET {AwsPath, TorPath} :
          fs \in [present -> ListContents]
    /\ dirs = mkdir_parents({}, PROVIDERS_DIR)
    /\ \E paths \in BoundedSeq({AwsPath, TorPath, ProvidersDirPath,
                                MissingPath}, MaxPaths) :
          /\ paths # <<>>
          /\ args = [script |-> "validate", paths |-> paths]
    /\ pc = "start"
    /\ calls = NoCalls
    /\ MainIdle
    /\ ParserIdle

\* lines 131-147: collect the files; none is fatal
ValidateMainStart ==
    /\ pc = "start"
    /\ LET files == collect_files(args.paths)
       IN  IF files = <<>>
           THEN /\ pc' = "exited" /\ exit_code' = 1 /\ UNCHANGED todo
           ELSE /\ pc' = "loop" /\ todo' = sorted_paths(files)
                /\ UNCHANGED exit_code
    /\ UNCHANGED <<fs, dirs, args, log, total_errors, success_count,
                   total_cidrs, runs, calls, content, parsed>>

\* One iteration of the loop, lines 149-155.  validate_file is called
\* outside any try: what it raises ends the process with a traceback.
ValidateLoopBody ==
    /\ pc = "loop"
    /\ todo # <<>>
    /\ LET filepath == Head(todo)
           r == validate_file(filepath)
       IN  IF r.raised
           THEN /\ pc' = "crashed" /\ exit_code' = 1
                /\ log' = Append(log, [unit |-> filepath, raised |-> TRUE])
                /\ UNCHANGED <<todo, total_errors>>
           ELSE /\ log' = Append(log, [unit |-> filepath, raised |-> FALSE,
                                       results |-> r.value])
                /\ total_errors' = total_errors + r.value.invalid_cidrs
                /\ todo' = Tail(todo)
                /\ UNCHANGED <<pc, exit_code>>
    /\ UNCHANGED <<fs, dirs, args, success_count, total_cidrs, runs, calls,
                   content, parsed>>

\* line 170
ValidateExit ==
    /\ pc = "loop"
    /\ todo = <<>>
    /\ pc' = "exited"
    /\ exit_code' = IF total_errors > 0 THEN 1 ELSE 0
    /\ UNCHANGED <<fs, dirs, args, todo, log, total_errors, success_count,
                   total_cidrs, runs, calls, content, parsed>>

NextValidate == ValidateMainStart \/ ValidateLoopBody \/ ValidateExit

SpecValidate == InitValidate /\ [][NextValidate]_vars

Ended == pc \in {"exited", "crashed"}

RECURSIVE SumInvalid(_)
SumInvalid(records) ==
    IF records = <<>> THEN 0
    ELSE (IF Head(records).raised THEN 0
          ELSE Head(records).results.invalid_cidrs)
         + SumInvalid(Tail(records))

\* The command line resolves to at least one file.
ResolvedNonEmpty ==
    \E i \in 1..Len(args.paths) :
        \/ is_file(args.paths[i])
        \/ /\ is_dir(args.paths[i])
           /\ \E p \in DOMAIN fs : /\ Append(args.paths[i][1], args.paths[i][2]) = p[1]
                                   /\ endswith(p[2], TXT)

\* C3: the Validator exits 0 exactly when the resolved file set is non-empty
\* and the validated files hold no invalid entry in total (duplicates and
\* missing paths do not count); an empty resolved file set exits 1.
C3_ExitCode ==
    Ended => (exit_code = 0 <=> (ResolvedNonEmpty /\ SumInvalid(log) = 0))

Units(records) == [i \in 1..Len(records) |-> records[i].unit]

\* C8: once the Validator has ended, every file of the resolved set has been
\* attempted exactly once, whatever happened to the files before it.
C8_EveryFileAttempted ==
    Ended => Units(log) = sorted_paths(collect_files(args.paths))

----------------------------------------------------------------------------
(* fetch.py: the parsers.  A response body is either a text (a string with *)
(* "\n" between its lines) or, for the JSON providers, what json.loads     *)
(* makes of it: a tagged value, or the JSONDecodeError.                    *)

JDict(pairs) == [t |-> "dict", pairs |-> pairs]     \* <<key, value>>, ...
JList(items) == [t |-> "list", items |-> items]
JStr(chars) == [t |-> "str", s |-> chars]
Text(chars) == [t |-> "text", s |-> chars]
JInt == [t |-> "int"]
JNull == [t |-> "null"]
Malformed == [t |-> "JSONDecodeError"]

IP_PREFIX == <<"i", "p", "_", "p", "r", "e", "f", "i", "x">>
PREFIXES == <<"p", "r", "e", "f", "i", "x", "e", "s">>

has_key(d, key) == \E i \in 1..Len(d.pairs) : d.pairs[i][1] = key
get(d, key) ==
    d.pairs[CHOOSE i \in 1..Len(d.pairs) : d.pairs[i][1] = key][2]

contains(s, sub) ==
    \E i \in 1..(Len(s) - Len(sub) + 1) : SubSeq(s, i, i + Len(sub) - 1) = sub

\* iter(x): the items a for statement draws from x, or the TypeError
iterate(x) ==
    CASE x.t = "list" -> Returned(x.items)
      [] x.t = "dict" ->
            Returned([i \in 1..Len(x.pairs) |-> JStr(x.pairs[i][1])])
      [] x.t = "str" -> Returned([i \in 1..Len(x.s) |-> JStr(<<x.s[i]>>)])
      [] OTHER -> Raised

\* 'ip_prefix' in prefix
in_prefix(prefix) ==
    CASE prefix.t = "dict" -> Returned(has_key(prefix, IP_PREFIX))
      [] prefix.t = "list" ->
            Returned(\E i \in 1..Len(prefix.items) :
                        prefix.items[i] = JStr(IP_PREFIX))
      [] prefix.t = "str" -> Returned(contains(prefix.s, IP_PREFIX))
      [] OTHER -> Raised

\* The Python strings of a list of JSON strings
Strings(values) == [i \in 1..Len(values) |-> values[i].s]

\* Lines 65-66 on one element: what it appends, or the TypeError
aws_element(prefix) ==
    IF in_prefix(prefix).raised THEN Raised
    ELSE IF ~in_prefix(prefix).value THEN Returned(<<>>)
    ELSE IF prefix.t = "dict" THEN Returned(<<get(prefix, IP_PREFIX).s>>)
    ELSE Raised

\* The concatenation of what the elements append; Raised if one raises
RECURSIVE aws_elements(_)
aws_elements(items) ==
    IF items = <<>> THEN Returned(<<>>)
    ELSE LET first == aws_element(Head(items))
             rest == aws_elements(Tail(items))
         IN  IF first.raised \/ rest.raised THEN Raised
             ELSE Returned(first.value \o rest.value)

parse_aws_json(data) ==
    IF data = Malformed THEN Raised
    ELSE IF data.t # "dict" THEN Raised
    ELSE LET prefixes == IF has_key(data, PREFIXES) THEN get(data, PREFIXES)
                         ELSE JList(<<>>)
         IN  IF iterate(prefixes).raised THEN Raised
             ELSE aws_elements(iterate(prefixes).value)

\* The strings of a list, in order; nothing for a value that is no list
ovh_strings(networks) ==
    IF networks.t = "list"
    THEN Strings(SelectSeq(networks.items, LAMBDA net : net.t = "str"))
    ELSE <<>>

RECURSIVE ovh_regions(_)
ovh_regions(pairs) ==
    IF pairs = <<>> THEN <<>>
    ELSE ovh_strings(Head(pairs)[2]) \o ovh_regions(Tail(pairs))

parse_ovh_json(data) ==
    IF data = Malformed THEN Raised
    ELSE IF data.t = "dict" THEN Returned(ovh_regions(data.pairs))
    ELSE IF data.t = "list" THEN Returned(ovh_strings(data))
    ELSE Returned(<<>>)

\* The stripped first comma-separated field of every line that is neither
\* blank nor a comment (lines 73-80 and 89-96)
first_fields(text) ==
    LET lines == split(strip(text), "\n")
        rows == SelectSeq([i \in 1..Len(lines) |-> strip(lines[i])],
                    LAMBDA line : line # <<>> /\ ~startswith(line, <<"#">>))
    IN  [i \in 1..Len(rows) |-> strip(split(rows[i], ",")[1])]

parse_digitalocean_csv(text) ==
    Returned(SelectSeq(first_fields(text), LAMBDA cidr : "/" \in Range(cidr)))

parse_linode_text(text) ==
    Returned(SelectSeq(first_fields(text),
        LAMBDA cidr : ip_network(cidr).ok /\ ip_network(cidr).version = 4))

\* str.split(): the maximal runs of characters that are no whitespace
RECURSIVE split_ws(_)
split_ws(s) ==
    LET t == lstrip(s)
        n == IF \A i \in 1..Len(t) : ~isspace(t[i]) THEN Len(t)
             ELSE (CHOOSE k \in 1..Len(t) :
                      isspace(t[k]) /\ \A m \in 1..(k - 1) : ~isspace(t[m])) - 1
    IN  IF t = <<>> THEN <<>>
        ELSE <<SubSeq(t, 1, n)>> \o split_ws(SubSeq(t, n + 1, Len(t)))

EXIT_ADDRESS ==
    <<"E", "x", "i", "t", "A", "d", "d", "r", "e", "s", "s", " ">>

parse_tor_exit(text) ==
    LET lines == SelectSeq(split(text, "\n"),
                     LAMBDA line : startswith(line, EXIT_ADDRESS)
                                      /\ Len(split_ws(line)) >= 2)
    IN  Returned([i \in 1..Len(lines) |->
                     split_ws(lines[i])[2] \o <<"/", "3", "2">>])

\* \w and \b of the regular expression
isword(c) == c \in Range(DigitChars) \/ ord(c) >= ord("A")
boundary(s, i) ==
    (i >= 1 /\ i <= Len(s) /\ isword(s[i])) # (i >= 2 /\ isword(s[i - 1]))

\* The length of the digit run of s that starts at i
RECURSIVE digit_run(_, _)
digit_run(s, i) ==
    IF i > Len(s) \/ s[i] \notin Range(DigitChars) THEN 0
    ELSE 1 + digit_run(s, i + 1)

\* Where \d{1,3} followed by sep ends when tried at i (0: no match); the
\* separator after a digit run is no digit, so the run is taken whole
group_end(s, i, sep, most) ==
    LET n == digit_run(s, i)
    IN  IF n >= 1 /\ n <= most /\ i + n <= Len(s) /\ s[i + n] = sep
        THEN i + n ELSE 0

\* The end of a match of line 145's pattern that starts at i, or 0
match_end(s, i) ==
    LET a == group_end(s, i, ".", 3)
        b == IF a = 0 THEN 0 ELSE group_end(s, a + 1, ".", 3)
        c == IF b = 0 THEN 0 ELSE group_end(s, b + 1, ".", 3)
        d == IF c = 0 THEN 0 ELSE group_end(s, c + 1, "/", 3)
        n == IF d = 0 THEN 0 ELSE digit_run(s, d + 1)
    IN  IF d # 0 /\ boundary(s, i) /\ n >= 1 /\ n <= 2
             /\ boundary(s, d + n + 1)
        THEN d + n ELSE 0

\* re.findall: leftmost matches, none overlapping
RECURSIVE findall(_, _)
findall(s, i) ==
    IF i > Len(s) THEN <<>>
    ELSE IF match_end(s, i) = 0 THEN findall(s, i + 1)
    ELSE <<SubSeq(s, i, match_end(s, i))>> \o findall(s, match_end(s, i) + 1)

\* Every order in which a set can be listed
Orders(S) ==
    {q \in [1..Cardinality(S) -> S] : \A x \in S : \E i \in DOMAIN q : q[i] = x}

\* parse_vultr_html ends in list(set(cidrs)): the order of the result is
\* whatever the set's iteration gives, so every order is an outcome
parse_vultr_html(text) ==
    {Returned(q) : q \in
        Orders(Range(SelectSeq(findall(text, 1),
                               LAMBDA m : ip_network(m).ok)))}

\* PARSERS[parser_name](content): the set of what the call can give
PARSERS(parser_name, body) ==
    CASE parser_name = "aws_json" -> {parse_aws_json(body)}
      [] parser_name = "digitalocean_csv" -> {parse_digitalocean_csv(body.s)}
      [] parser_name = "linode_text" -> {parse_linode_text(body.s)}
      [] parser_name = "ovh_json" -> {parse_ovh_json(body)}
      [] parser_name = "tor_exit" -> {parse_tor_exit(body.s)}
      [] parser_name = "vultr_html" -> parse_vultr_html(body.s)

----------------------------------------------------------------------------
(* One parser applied to one response body.                                *)

MaxElements == 2

REGION == <<"r", "e", "g", "i", "o", "n">>
Carrying(cidr) == JDict(<<<<IP_PREFIX, JStr(cidr)>>>>)

\* What an element of the AWS "prefixes" array can be.  The ip_prefix of an
\* object is always a string here.
AwsElements ==
    {Carrying(N10_0_0_0_24), Carrying(N9_0_0_0_8),
     JDict(<<<<REGION, JStr(<<"x">>)>>>>), JInt, JNull, JStr(<<"x">>),
     JStr(IP_PREFIX), JList(<<>>), JList(<<JStr(IP_PREFIX)>>)}

AwsDocs ==
    {Malformed, JList(<<>>), JDict(<<>>), JDict(<<<<PREFIXES, JInt>>>>)}
        \cup {JDict(<<<<PREFIXES, JList(items)>>>>) :
                 items \in BoundedSeq(AwsElements, MaxElements)}

OvhEntries == {JStr(N10_0_0_0_24), JStr(N9_0_0_0_8), JInt, JList(<<>>)}
OvhLists == {JList(items) : items \in BoundedSeq(OvhEntries, MaxElements)}
OvhRegionValues == OvhLists \cup {JInt, JStr(N10_0_0_0_24), JDict(<<>>)}

OvhDocs ==
    {Malformed, JInt, JNull, JDict(<<>>)} \cup OvhLists
        \cup {JDict(<<<<<<"a">>, v>>>>) : v \in OvhRegionValues}
        \cup {JDict(<<<<<<"a">>, v>>, <<<<"b">>, w>>>>) :
                 v \in OvhRegionValues, w \in OvhRegionValues}

CsvDocs ==
    {<<>>,
     <<"\n", "#", "c", "\n", "9", ".", "0", ".", "0", ".", "0", "/", "8", ",",
       "a", "\n", " ", "\n", "x", ",", "b", "\n">>
         \o N10_0_0_0_24 \o <<"\n">> \o V6 \o <<",", "z", "\n">>}

TorDocs ==
    {<<>>,
     <<"E", "x", "i", "t", "N", "o", "d", "e", " ", "a", "\n">>
         \o EXIT_ADDRESS \o <<"9", ".", "0", ".", "0", ".", "9", " ", "x", "\n">>
         \o EXIT_ADDRESS \o <<" ", "\n">>
         \o EXIT_ADDRESS \o <<"1", ".", "2", ".", "3", ".", "4">>}

HtmlDocs ==
    {<<"x">>,
     <<"a", " ">> \o N9_0_0_0_8 \o <<",">> \o N10_0_0_0_24 \o <<" ">>
         \o N9_0_0_0_8 \o <<" ">> \o Bad33 \o <<" ", "x">> \o N10_0_1_0_24}

Contents ==
    {[parser |-> "aws_json", body |-> d] : d \in AwsDocs}
        \cup {[parser |-> "ovh_json", body |-> d] : d \in OvhDocs}
        \cup {[parser |-> "digitalocean_csv", body |-> Text(d)] : d \in CsvDocs}
        \cup {[parser |-> "linode_text", body |-> Text(d)] : d \in CsvDocs}
        \cup {[parser |-> "tor_exit", body |-> Text(d)] : d \in TorDocs}
        \cup {[parser |-> "vultr_html", body |-> Text(d)] : d \in HtmlDocs}

InitParse ==
    /\ content \in Contents
    /\ parsed = NoParse
    /\ fs = <<>>
    /\ dirs = {}
    /\ args = NoArgs
    /\ pc = "call"
    /\ calls = NoCalls
    /\ MainIdle

Parse ==
    /\ pc = "call"
    /\ \E result \in PARSERS(content.parser, content.body) :
          parsed' = [done |-> TRUE, result |-> result]
    /\ pc' = "returned"
    /\ UNCHANGED <<fs, dirs, args, todo, log, exit_code, total_errors,
                   success_count, total_cidrs, runs, calls, content>>

NextParse == Parse

SpecParse == InitParse /\ [][NextParse]_vars

\* The document parsed as a whole and has the shape the parser reads
AwsShaped(d) ==
    d # Malformed /\ d.t = "dict" /\ has_key(d, PREFIXES)
        /\ get(d, PREFIXES).t = "list"
OvhShaped(d) == d # Malformed /\ d.t \in {"dict", "list"}

\* The CIDRs of the well-formed elements, in document order
AwsWellFormed(d) ==
    LET good == SelectSeq(get(d, PREFIXES).items,
                    LAMBDA e : e.t = "dict" /\ has_key(e, IP_PREFIX))
    IN  [i \in 1..Len(good) |-> get(good[i], IP_PREFIX).s]

RECURSIVE Flatten(_)
Flatten(seqs) ==
    IF seqs = <<>> THEN <<>> ELSE Head(seqs) \o Flatten(Tail(seqs))

OvhGood(list) ==
    Strings(SelectSeq(list.items, LAMBDA e : e.t = "str"))

OvhWellFormed(d) ==
    IF d.t = "list" THEN OvhGood(d)
    ELSE Flatten([i \in 1..Len(d.pairs) |->
                     IF d.pairs[i][2].t = "list" THEN OvhGood(d.pairs[i][2])
                     ELSE <<>>])

\* C9: on a document that parses as a whole, the AWS and OVH parsers raise
\* nothing and return exactly the CIDRs of the well-formed elements: the AWS
\* parser ignores every element that is no object carrying ip_prefix, the
\* OVH parser every entry that is no string and every region value that is
\* no array.
C9_MalformedElementsSkipped ==
    parsed.done =>
        /\ (content.parser = "aws_json" /\ AwsShaped(content.body)) =>
              /\ ~parsed.result.raised
              /\ parsed.result.value = AwsWellFormed(content.body)
        /\ (content.parser = "ovh_json" /\ OvhShaped(content.body)) =>
              /\ ~parsed.result.raised
              /\ parsed.result.value = OvhWellFormed(content.body)

\* The OVH half of C9 alone
OvhSkipsMalformed ==
    (parsed.done /\ content.parser = "ovh_json" /\ OvhShaped(content.body)) =>
        /\ ~parsed.result.raised
        /\ parsed.result.value = OvhWellFormed(content.body)

----------------------------------------------------------------------------
(* fetch.py: fetch_provider and main.                                      *)

ProviderNames == <<"aws", "digitalocean", "linode", "ovh", "tor", "vultr">>

DIGITALOCEAN == <<"d", "i", "g", "i", "t", "a", "l", "o", "c", "e", "a", "n">>
LINODE == <<"l", "i", "n", "o", "d", "e">>
OVH == <<"o", "v", "h">>
TOR_EXIT_NODES == TOR \o <<"-", "e", "x", "i", "t", "-", "n", "o", "d", "e", "s">>
VULTR == <<"v", "u", "l", "t", "r">>

PROVIDERS ==
    [name \in Range(ProviderNames) |->
        CASE name = "aws" ->
                [parser |-> "aws_json", output |-> <<PROVIDERS_DIR, AWS \o TXT>>]
          [] name = "digitalocean" ->
                [parser |-> "digitalocean_csv",
                 output |-> <<PROVIDERS_DIR, DIGITALOCEAN \o TXT>>]
          [] name = "linode" ->
                [parser |-> "linode_text",
                 output |-> <<PROVIDERS_DIR, LINODE \o TXT>>]
          [] name = "ovh" ->
                [parser |-> "ovh_json", output |-> <<PROVIDERS_DIR, OVH \o TXT>>]
          [] name = "tor" ->
                [parser |-> "tor_exit",
                 output |-> <<PROVIDERS_DIR, TOR_EXIT_NODES \o TXT>>]
          [] name = "vultr" ->
                [parser |-> "vultr_html",
                 output |-> <<PROVIDERS_DIR, VULTR \o TXT>>]]

\* What fetch_url gives: the decoded body, or the exception it raises
Fetched(body) == [error |-> "none", body |-> body]
URLError == [error |-> "URLError"]
UnicodeDecodeError == [error |-> "UnicodeDecodeError"]

\* The file at a path, if there is one
file_at(path) == IF exists(path) THEN Some(fs[path]) ELSE None

\* Every return of fetch_provider that writes nothing (lines 172-174,
\* 188-190, 206-214)
failed(output_path, kind, cidrs) ==
    [success |-> FALSE, count |-> 0, fs |-> fs, dirs |-> dirs, kind |-> kind,
     wrote |-> FALSE, cidrs |-> cidrs, before |-> file_at(output_path)]

\* Mutant of no_cidrs: an empty result is not told apart.
no_cidrs_never(cidrs) == FALSE

\* "if not cidrs"
no_cidrs(cidrs) == cidrs = <<>>

\* Mutant of sort_dedup: the parser's list as it came.
sort_dedup_none(cidrs) == cidrs

\* sorted(set(cidrs))
sort_dedup(cidrs) == sorted_set(Range(cidrs))

\* Lines 188-204: what fetch_provider does with the parser's list
save(output_path, dry_run, cidrs) ==
    LET lines == sort_dedup(cidrs)
    IN  IF no_cidrs(cidrs) THEN failed(output_path, "no CIDRs", cidrs)
        ELSE [success |-> TRUE, count |-> Len(lines),
              fs |-> IF dry_run THEN fs
                     ELSE write_lines(fs, output_path, lines),
              dirs |-> IF dry_run THEN dirs
                       ELSE mkdir_parents(dirs, output_path[1]),
              kind |-> "ok", wrote |-> ~dry_run, cidrs |-> cidrs,
              before |-> file_at(output_path)]

\* fetch_provider(name, dry_run) when fetch_url gives response: the set of
\* its possible outcomes
fetch_provider(name, dry_run, response) ==
    IF name \notin DOMAIN PROVIDERS THEN {failed(<<>>, "unknown", <<>>)}
    ELSE LET config == PROVIDERS[name]
         IN  IF response.error # "none"
             THEN {failed(config.output, response.error, <<>>)}
             ELSE {IF result.raised
                   THEN failed(config.output,
                               IF response.body = Malformed
                               THEN "JSONDecodeError" ELSE "Exception", <<>>)
                   ELSE save(config.output, dry_run, result.value) :
                      result \in PARSERS(config.parser, response.body)}

\* Lines 248-251
providers_to_fetch(providers) ==
    IF "all" \in Range(providers) THEN ProviderNames ELSE providers

\* Mutant of exit_status: one success is enough.
exit_status_any(successes, fetched) == IF successes > 0 THEN 0 ELSE 1

\* Line 271
exit_status(successes, fetched) == IF successes = fetched THEN 0 ELSE 1

\* The command lines tried.  No provider named means ['all'].
CommandLines ==
    {<<"all">>, <<"aws">>, <<"tor", "aws">>, <<"aws", "aws">>,
     <<"ovh", "all">>, <<"vultr", "linode", "digitalocean">>}

GoodAws ==
    JDict(<<<<PREFIXES, JList(<<Carrying(N9_0_0_0_8),
                               JDict(<<<<REGION, JStr(<<"x">>)>>>>),
                               Carrying(N10_0_0_0_24),
                               Carrying(N9_0_0_0_8)>>)>>>>)
BadAws == JDict(<<<<PREFIXES, JList(<<Carrying(N9_0_0_0_8), JInt>>)>>>>)
GoodOvh ==
    JDict(<<<<<<"a">>, JList(<<JStr(N9_0_0_0_8), JInt>>)>>,
            <<<<"b">>, JInt>>,
            <<<<"c">>, JList(<<JStr(N10_0_1_0_24), JStr(N10_0_0_0_24)>>)>>>>)
GoodText(docs) == Text(CHOOSE d \in docs : Len(d) > 1)
EmptyText(docs) == Text(CHOOSE d \in docs : Len(d) <= 1)

\* What fetch_url can give for each provider
Responses(name) ==
    CASE name = "aws" ->
            {URLError, Fetched(Malformed), Fetched(BadAws),
             Fetched(JDict(<<>>)), Fetched(GoodAws)}
      [] name = "ovh" ->
            {URLError, Fetched(Malformed), Fetched(JDict(<<>>)),
             Fetched(GoodOvh)}
      [] name = "digitalocean" ->
            {URLError, UnicodeDecodeError, Fetched(EmptyText(CsvDocs)),
             Fetched(GoodText(CsvDocs))}
      [] name = "linode" ->
            {URLError, Fetched(EmptyText(CsvDocs)), Fetched(GoodText(CsvDocs))}
      [] name = "tor" ->
            {URLError, Fetched(EmptyText(TorDocs)), Fetched(GoodText(TorDocs))}
      [] name = "vultr" ->
            {URLError, Fetched(EmptyText(HtmlDocs)),
             Fetched(GoodText(HtmlDocs))}

OldLines == <<N10_0_1_0_24>>

\* Either no provider list has been fetched yet, or all hold an old list
InitFetch ==
    /\ \E providers \in CommandLines, dry_run \in BOOLEAN, list \in BOOLEAN :
          args = [script |-> "fetch", providers |-> providers,
                  dry_run |-> dry_run, list |-> list]
    /\ \/ fs = <<>> /\ dirs = {}
       \/ /\ fs = [p \in {PROVIDERS[n].output : n \in DOMAIN PROVIDERS} |->
                      File(OldLines)]
          /\ dirs = mkdir_parents({}, PROVIDERS_DIR)
    /\ pc = "start"
    /\ calls = NoCalls
    /\ MainIdle
    /\ ParserIdle

\* --list: print the providers and exit
FetchList ==
    /\ pc = "start"
    /\ args.list
    /\ pc' = "exited"
    /\ exit_code' = 0
    /\ UNCHANGED <<fs, dirs, args, todo, log, total_errors, success_count,
                   total_cidrs, runs, calls, content, parsed>>

FetchMainStart ==
    /\ pc = "start"
    /\ ~args.list
    /\ todo' = providers_to_fetch(args.providers)
    /\ success_count' = 0
    /\ total_cidrs' = 0
    /\ pc' = "loop"
    /\ UNCHANGED <<fs, dirs, args, log, exit_code, total_errors, runs, calls,
                   content, parsed>>

\* One pass of the loop of lines 257-261
FetchLoopBody ==
    /\ pc = "loop"
    /\ todo # <<>>
    /\ \E response \in Responses(Head(todo)) :
          \E r \in fetch_provider(Head(todo), args.dry_run, response) :
             /\ fs' = r.fs
             /\ dirs' = r.dirs
             /\ success_count' = IF r.success THEN success_count + 1
                                 ELSE success_count
             /\ total_cidrs' = IF r.success THEN total_cidrs + r.count
                               ELSE total_cidrs
             /\ log' = Append(log, [name |-> Head(todo), success |-> r.success,
                                    count |-> r.count, kind |-> r.kind,
                                    wrote |-> r.wrote, cidrs |-> r.cidrs,
                                    before |-> r.before])
    /\ todo' = Tail(todo)
    /\ UNCHANGED <<args, pc, exit_code, total_errors, runs, calls, content,
                   parsed>>

FetchExit ==
    /\ pc = "loop"
    /\ todo = <<>>
    /\ exit_code' = exit_status(success_count,
                                Len(providers_to_fetch(args.providers)))
    /\ pc' = "exited"
    /\ UNCHANGED <<fs, dirs, args, todo, log, total_errors, success_count,
                   total_cidrs, runs, calls, content, parsed>>

NextFetch == FetchList \/ FetchMainStart \/ FetchLoopBody \/ FetchExit

SpecFetch == InitFetch /\ [][NextFetch]_vars

----------------------------------------------------------------------------
(* Properties of the fetcher.                                              *)

Fetching == args.script = "fetch" /\ log # <<>>
LastAttempt == log[Len(log)]
OutputOf(name) ==
    <<PROVIDERS_DIR,
      (CASE name = "aws" -> AWS
         [] name = "digitalocean" -> DIGITALOCEAN
         [] name = "linode" -> LINODE
         [] name = "ovh" -> OVH
         [] name = "tor" -> TOR_EXIT_NODES
         [] name = "vultr" -> VULTR) \o TXT>>

StrictlyIncreasing(lines) ==
    \A i \in 1..Len(lines) : \A k \in (i + 1)..Len(lines) :
        str_lt(lines[i], lines[k])

\* C5: when fetch_provider succeeds outside dry-run, the provider's output
\* file holds, one per line, exactly the set of strings the parser returned,
\* without duplicates and in ascending lexicographic order, whatever the
\* file held before, and the count returned is the number of lines.
C5_SortedDeduped ==
    (Fetching /\ ~args.dry_run /\ LastAttempt.success) =>
        /\ exists(OutputOf(LastAttempt.name))
        /\ fs[OutputOf(LastAttempt.name)].readable
        /\ LET lines == fs[OutputOf(LastAttempt.name)].lines
           IN  /\ Range(lines) = Range(LastAttempt.cidrs)
               /\ StrictlyIncreasing(lines)
               /\ LastAttempt.count = Len(lines)

\* A list with a duplicate and out of order replaced an old file
C5_Witness ==
    /\ Fetching /\ ~args.dry_run /\ LastAttempt.success
    /\ LastAttempt.name = "aws"
    /\ LastAttempt.cidrs = <<N9_0_0_0_8, N10_0_0_0_24, N9_0_0_0_8>>
    /\ LastAttempt.before = Some(File(OldLines))
    /\ fs[OutputOf("aws")] = File(<<N10_0_0_0_24, N9_0_0_0_8>>)
    /\ LastAttempt.count = 2

\* The parser returned and its list was empty
ZeroCidrs(attempt) ==
    attempt.kind \in {"ok", "no CIDRs"} /\ attempt.cidrs = <<>>

\* C6: when the parser returns zero CIDRs, fetch_provider reports failure
\* with count 0 and the provider's output file is as it was before the call:
\* not truncated, overwritten, created or deleted.
C6_ZeroCidrsKeepsFile ==
    (Fetching /\ ZeroCidrs(LastAttempt)) =>
        /\ ~LastAttempt.success
        /\ LastAttempt.count = 0
        /\ file_at(OutputOf(LastAttempt.name)) = LastAttempt.before

\* Outside dry-run an empty result left the old list in place
C6_Witness ==
    /\ Fetching /\ ZeroCidrs(LastAttempt) /\ ~args.dry_run
    /\ ~LastAttempt.success
    /\ LastAttempt.before = Some(File(OldLines))
    /\ fs[OutputOf(LastAttempt.name)] = File(OldLines)

Requested ==
    IF \E i \in 1..Len(args.providers) : args.providers[i] = "all"
    THEN <<"aws", "digitalocean", "linode", "ovh", "tor", "vultr">>
    ELSE args.providers

BatchEnded == args.script = "fetch" /\ ~args.list /\ pc = "exited"
Succeeded == {i \in 1..Len(log) : log[i].success}

\* Every requested provider was attempted exactly once, in the requested
\* order, whatever failed before it; the failures are counted as failures;
\* the exit status is 0 exactly when every attempt succeeded.
AllAttempted ==
    /\ [i \in 1..Len(log) |-> log[i].name] = Requested
    /\ \A i \in 1..Len(log) :
          log[i].kind \in {"URLError", "JSONDecodeError", "Exception",
                           "UnicodeDecodeError", "no CIDRs"}
              => ~log[i].success
    /\ success_count = Cardinality(Succeeded)
    /\ (exit_code = 0) <=> (Succeeded = 1..Len(log))

\* The file of attempt i holds what the last successful attempt on the same
\* provider wrote
FileWritten(i) ==
    LET last == CHOOSE k \in Succeeded :
                   /\ log[k].name = log[i].name
                   /\ \A m \in Succeeded : log[m].name = log[i].name => m <= k
    IN  /\ log[i].wrote
        /\ exists(OutputOf(log[i].name))
        /\ fs[OutputOf(log[i].name)] = File(sorted_set(Range(log[last].cidrs)))

\* C2 as stated: in a batch run a failing provider does not abort the run,
\* every requested provider is attempted once and in order, the output file
\* of every provider that succeeded is written, and the exit status is 0
\* exactly when all succeeded.
C2_BatchIsolation ==
    BatchEnded => (AllAttempted /\ \A i \in Succeeded : FileWritten(i))

\* C2 amended: the output file of a provider that succeeded is written when
\* the batch is no dry run; in a dry run no file is written.
C2_BatchIsolationWet ==
    BatchEnded =>
        /\ AllAttempted
        /\ ~args.dry_run => \A i \in Succeeded : FileWritten(i)
        /\ args.dry_run => \A i \in 1..Len(log) : ~log[i].wrote

\* A full batch in which the first provider fails in transport, others fail
\* in other ways and the rest are fetched and written
C2_Witness ==
    /\ BatchEnded /\ ~args.dry_run
    /\ Len(log) = 6
    /\ log[1].kind = "URLError"
    /\ log[2].success /\ FileWritten(2)
    /\ log[4].kind = "JSONDecodeError"
    /\ log[5].kind = "no CIDRs"
    /\ log[6].success /\ FileWritten(6)
    /\ success_count = 3
    /\ exit_code = 1

=============================================================================
